---- MODULE Spec2Model ----
(***************************************************************************)
(* A model of cg_ctdmo_qct.py: the QCT procedure for CTDMO instruments.    *)
(*                                                                         *)
(* Spec      the test runner ctdmo_qct_test, one action per stretch of     *)
(*           code between two operator inputs; a call of ser_coms is one   *)
(*           exchange whose returned text is drawn from a set of replies.  *)
(* SpecComs  ser_coms itself, read by read, against a device that sends    *)
(*           its reply in fragments separated by pauses.                   *)
(* SpecPlausibility  the plausibility check of the sample in air alone,    *)
(*           for samples on and around its bounds.                         *)
(* SpecMain  the main program loop: menu, form numbers, capture files; a   *)
(*           call of ctdmo_qct_test is one step.                           *)
(*                                                                         *)
(* Python lists are 0-indexed, TLA+ sequences 1-indexed: Get, ListSet and  *)
(* SliceAssign take the Python index.  Text that the code searches is a    *)
(* sequence of one-character strings; text it only compares is a string.   *)
(***************************************************************************)
EXTENDS Integers, Sequences, FiniteSets, TLC

VARIABLES
    pc,                 \* position in ctdmo_qct_test
    ser,                \* the serial port: "none", "open", "closed"
    capfile_state,      \* the capture file: "none", "open", "closed"
    last_sent,          \* the commands written to the port by the latest
                        \* step that wrote any, in order
    last_logged,        \* the last text written to the capture file
    remote_id,          \* None or the two-digit id
    step_results_p,     \* the pass flags
    testdata,           \* the 'Test Data' column entries (lines of text)
    ds,                 \* tokens of the last status reply the step loops use
    sample_air,         \* the pre-immersion sample
    sample_bucket,      \* the post-immersion sample
    seriesletter,
    report,             \* the rows written to the results table
    ret,                \* what ctdmo_qct_test returned, None while running
    retries,            \* loop-backs taken so far in this run
    microsecond,        \* the microsecond field of the dt.utcnow() that the
                        \* latest clock check took its reference time from
    coms_pc,            \* position in ser_coms (SpecComs)
    sent,               \* the commands written to the port, in order
    capfile,            \* the texts written to the capture file, in order
    wire,               \* fragments the device has still to deliver
    cap,                \* ser_coms' local variable cap
    returned,           \* how often ser_coms returned, and its last value
    reply,              \* what is to arrive when the command is written:
                        \* the rest of earlier replies, and the new reply
    empty_reads,        \* consecutive reads of this exchange that gave no data
    main_pc,            \* position in the main program loop
    port,               \* None or the serial port selected
    formnumber,         \* None or the form number of the latest test
    runs,               \* the calls of ctdmo_qct_test so far: the form number
                        \* given, and whether the capture file was opened
    files               \* the capture files on disk: name |-> the call
                        \* whose transcript the file holds

vars == <<pc, ser, capfile_state, last_sent, last_logged, remote_id,
          step_results_p, testdata, ds, sample_air, sample_bucket,
          seriesletter, report, ret, retries, microsecond, coms_pc, sent,
          capfile, wire, cap, returned, reply, empty_reads, main_pc, port,
          formnumber, runs, files>>

runner_vars == <<pc, ser, capfile_state, last_sent, last_logged, remote_id,
                 step_results_p, testdata, ds, sample_air, sample_bucket,
                 seriesletter, report, ret, retries, microsecond>>

coms_vars == <<coms_pc, sent, capfile, wire, cap, returned, reply,
               empty_reads>>

main_vars == <<main_pc, port, formnumber, runs, files>>

----------------------------------------------------------------------------
(* Bounds of the model *)

\* loop-backs (retries, automatic or accepted by the operator) in one run
MaxRetries == 2

\* calls of ser_coms in one behaviour of SpecComs
MaxCalls == 2

\* fragments in one reply of the device
MaxFragments == 2

\* calls of ctdmo_qct_test in one session of the program
MaxRuns == 3

----------------------------------------------------------------------------
(* Python values and list operations *)

None == "None"

\* None as an entry of testdata, whose entries are sequences of lines
NoEntry == <<>>

Get(l, i) == l[i + 1]

ListSet(l, i, v) == [l EXCEPT ![i + 1] = v]

\* SliceAssign that starts one entry early
SliceAssign_OffByOne(l, lo, hi, new) ==
    SubSeq(l, 1, lo - 1) \o new \o SubSeq(l, hi + 1, Len(l))

\* l[lo:hi] = new, for 0 <= lo <= hi <= len(l): the slice is replaced by new,
\* whatever the length of new
SliceAssign(l, lo, hi, new) ==
    SubSeq(l, 1, lo) \o new \o SubSeq(l, hi + 1, Len(l))

\* [v] * n
Repeat(v, n) == [i \in 1..n |-> v]

\* sub in s, for texts as sequences of characters
Contains(s, sub) ==
    \E i \in 1..(Len(s) - Len(sub) + 1) : SubSeq(s, i, i + Len(sub) - 1) = sub

\* truth value of a 'Test Data' entry: None and the empty text are false
Truthy(td) == td # NoEntry /\ td # <<"">>

Digits == {"0", "1", "2", "3", "4", "5", "6", "7", "8", "9"}

Whitespace == {" ", "\t", "\r", "\n"}

\* re.search('id\s=\s(\d{2})', id_query): the positions where the pattern
\* matches
IdMatches(s) ==
    {i \in 1..(Len(s) - 6) :
        /\ s[i] = "i" /\ s[i + 1] = "d"
        /\ s[i + 2] \in Whitespace
        /\ s[i + 3] = "="
        /\ s[i + 4] \in Whitespace
        /\ s[i + 5] \in Digits /\ s[i + 6] \in Digits}

\* ReSearchId that is content with one digit
ReSearchId_OneDigit(s) ==
    LET found == {i \in 1..(Len(s) - 5) :
                     /\ SubSeq(s, i, i + 1) = <<"i", "d">>
                     /\ s[i + 2] \in Whitespace
                     /\ s[i + 3] = "="
                     /\ s[i + 4] \in Whitespace
                     /\ s[i + 5] \in Digits}
    IN  IF found = {} THEN None
        ELSE LET i == CHOOSE k \in found : \A j \in found : k <= j
             IN  IF i + 6 <= Len(s) /\ s[i + 6] \in Digits
                 THEN s[i + 5] \o s[i + 6] ELSE s[i + 5]

\* group(1) of the leftmost match, as a string; None without a match
ReSearchId(s) ==
    IF IdMatches(s) = {} THEN None
    ELSE LET i == CHOOSE k \in IdMatches(s) : \A j \in IdMatches(s) : k <= j
         IN  s[i + 5] \o s[i + 6]

desired_id == "01"

\* 'id = %s' % desired_id, as characters
IdConfirmation == <<"i", "d", " ", "=", " ", "0", "1">>

FailureToken == <<"F", "A", "I", "L", "E", "D">>

----------------------------------------------------------------------------
(* Form numbers and capture files.  A form number is a text, a sequence of *)
(* one-character strings; None is the empty sequence, which the code       *)
(* treats alike ('if not formnumber').                                     *)

NoFormnumber == <<>>

DigitValue(c) ==
    CASE c = "0" -> 0 [] c = "1" -> 1 [] c = "2" -> 2 [] c = "3" -> 3
      [] c = "4" -> 4 [] c = "5" -> 5 [] c = "6" -> 6 [] c = "7" -> 7
      [] c = "8" -> 8 [] c = "9" -> 9

DigitOf(n) == CHOOSE c \in Digits : DigitValue(c) = n

RECURSIVE IntOf(_)
\* int(s) of a text of digits
IntOf(s) ==
    IF s = <<>> THEN 0
    ELSE 10 * IntOf(SubSeq(s, 1, Len(s) - 1)) + DigitValue(s[Len(s)])

RECURSIVE StrOf(_)
\* str(n) for n >= 0
StrOf(n) ==
    IF n < 10 THEN <<DigitOf(n)>>
    ELSE StrOf(n \div 10) \o <<DigitOf(n % 10)>>

\* s.rjust(width, fill)
Rjust(s, width, fill) ==
    IF Len(s) >= width THEN s ELSE Repeat(fill, width - Len(s)) \o s

\* re.match("^\d{5}$", formnumber) and formnumber != "00000"
ValidFormnumber(s) ==
    /\ Len(s) = 5
    /\ \A i \in 1..Len(s) : s[i] \in Digits
    /\ s # <<"0", "0", "0", "0", "0">>

\* str(int(formnumber)+1).rjust(5, '0')
IncrementFormnumber(f) == Rjust(StrOf(IntOf(f) + 1), 5, "0")

\* "3305-00101-%s-A.txt" % formnumber
CaptureFileName(f) == <<"3305-00101-">> \o f \o <<"-A.txt">>

----------------------------------------------------------------------------
(* What the device and the operator can answer *)

\* what the operator types for a form number: two numbers, the last
\* five-digit number, all zeros, too few digits
FormnumberInputs ==
    { <<"0", "0", "1", "2", "3">>, <<"0", "0", "1", "2", "4">>,
      <<"9", "9", "9", "9", "9">>, <<"0", "0", "0", "0", "0">>,
      <<"1", "2", "3">> }

\* what the operator types at the main menu
Selections == {"1", "2", "3", ""}

\* a serial port of the computer
PortName == "COM1"

\* replies to 'id?': the id wanted, another id, no id, a one-digit id, a
\* three-digit id
IdReplies ==
    { <<"i", "d", " ", "=", " ", "0", "1">>,
      <<"\r", "\n", "i", "d", " ", "=", " ", "0", "2", "\r", "\n">>,
      <<>>,
      <<"i", "d", " ", "=", " ", "1">>,
      <<"i", "d", " ", "=", " ", "0", "2", "1">> }

\* replies to '*id=01': confirmed, failed, neither
ReassignReplies ==
    { <<"i", "d", " ", "=", " ", "0", "1">>,
      <<"F", "A", "I", "L", "E", "D">>,
      <<>> }

\* answers to a '[y]/n' prompt
Answers == {"n", "y", ""}

----------------------------------------------------------------------------
(* ser_coms as one exchange of the runner: cmd is written to the port and  *)
(* the text received is written to the capture file and returned.  The     *)
(* runner's model keeps the commands its latest step wrote and the last    *)
(* text logged; SpecComs keeps all of them.                                *)

Logged(cmd, response) == [reply_to |-> cmd, text |-> response]

Exchange(cmd, response) ==
    /\ last_sent' = <<cmd>>
    /\ last_logged' = Logged(cmd, response)

\* two exchanges in a row
Exchange2(cmd1, response1, cmd2, response2) ==
    /\ last_sent' = <<cmd1, cmd2>>
    /\ last_logged' = Logged(cmd2, response2)

\* a reply whose content the code does not read
Ack == <<"o", "k">>

\* l[lo:hi] for 0 <= lo <= hi: a slice never fails, it is cut at len(l)
PySlice(l, lo, hi) ==
    SubSeq(l, lo + 1, IF hi <= Len(l) THEN hi ELSE Len(l))

\* ' '.join(tokens), for tokens that are strings
RECURSIVE JoinSp(_)
JoinSp(tokens) ==
    IF tokens = <<>> THEN ""
    ELSE IF Len(tokens) = 1 THEN tokens[1]
    ELSE tokens[1] \o " " \o JoinSp(Tail(tokens))

----------------------------------------------------------------------------
(* Time.  The instrument shows whole seconds, counted here from noon (UTC) *)
(* of the day before the test; dt.utcnow() has microseconds, and so has    *)
(* rollback_target, of which only hour, minute and second are replaced.    *)
(* A datetime is its whole seconds and its microsecond field.              *)

\* the seconds part of noon yesterday
RollbackTarget == 0

\* the seconds part of dt.utcnow() during the test: 13:00 today
UtcNow == 90000

MicrosPerSecond == 1000000

SecondsPerDay == 86400

\* the microsecond fields dt.utcnow() can have
Microseconds == {0, 500000}

\* a datetime of s whole seconds and us microseconds
DateTime(s, us) == [second |-> s, microsecond |-> us]

\* a - b of two datetimes: a timedelta, kept with microseconds in 0..999999
\* and the whole seconds below it, which may be negative
Minus(a, b) ==
    [whole |-> a.second - b.second
                  - (IF a.microsecond < b.microsecond THEN 1 ELSE 0),
     microseconds |-> (a.microsecond - b.microsecond) % MicrosPerSecond]

\* d.seconds of a timedelta d: the whole seconds are split into days, which
\* may be negative, and seconds in 0..86399
TimedeltaSeconds(d) == d.whole % SecondsPerDay

\* the tolerance of both clock checks
ClockInTolerance(d) == 0 <= TimedeltaSeconds(d) /\ TimedeltaSeconds(d) <= 15

\* offsets, in seconds, of the time the instrument shows from the time it
\* was set to
ClockOffsets == {-5, 0, 5, 15, 16, 20, SecondsPerDay + 5}

\* instrument times a status reply can show
ClockReadings ==
    {RollbackTarget + o : o \in ClockOffsets}
        \cup {UtcNow - o : o \in ClockOffsets}

----------------------------------------------------------------------------
(* Status replies ('ds'), as the tokens of .split().  Token 2 is the        *)
(* firmware, 5 the serial number, 6..9 the date and time (the time read is *)
(* held by token 6), 26..30 the sample interval phrase, 29 the interval.   *)

DsReply(serial, clock, interval) ==
    <<"SBE37-IM", "V", "3.1", "SERIAL", "NO.", serial, clock, "-", "-", "-">>
    \o Repeat("x", 16)
    \o <<"sample", "interval", "=", interval, "seconds">>

\* a status reply cut short
ShortDs == SubSeq(DsReply("12345", RollbackTarget + 5, "120"), 1, 5)

SerialNumbers == {"12345", "54321"}

\* the firmware version the instrument of that serial number reports
FirmwareOf(serial) == IF serial = "12345" THEN "3.1" ELSE "2.0"

\* the reply with another firmware version (ds[2])
WithFirmware(tokens, firmware) == ListSet(tokens, 2, firmware)

\* the instrument of the inventory, an instrument that is not in the
\* inventory and has an older firmware, and a reply cut short
DsIdentReplies ==
    {WithFirmware(DsReply(s, UtcNow - 5, "120"), FirmwareOf(s)) :
        s \in SerialNumbers} \cup {ShortDs}

DsClockReplies ==
    {DsReply("12345", c, "120") : c \in ClockReadings} \cup {ShortDs}

\* the intervals a status reply can show after the interval was set to
\* `desired`
\* the interval asked for and another one; for 120 also the same number
\* written with a leading zero
ReportedIntervals(desired) ==
    {desired, "119"} \cup (IF desired = "120" THEN {"0120"} ELSE {})

DsIntervalReplies(desired) ==
    {DsReply("12345", UtcNow - 5, i) : i \in ReportedIntervals(desired)}
        \cup {ShortDs}

\* date_from_ds raises ValueError: strptime is given fewer tokens than its
\* format has
DateUnparsable(tokens) == Len(PySlice(tokens, 6, 10)) < 4

\* date_from_ds: the tokens 6..9 parsed as a time
date_from_ds(tokens) == Get(tokens, 6)

----------------------------------------------------------------------------
(* The inventory file and the series letters *)

\* ctdmo_inv.csv: serial number -> series letter
inv_dict == [s \in {"37-12345"} |-> <<"G">>]

partnumber_dict ==
    [l \in {<<"G">>, <<"H">>, <<"Q">>, <<"R">>} |->
        CASE l = <<"G">> -> "00007"
          [] l = <<"H">> -> "00008"
          [] l = <<"Q">> -> "00017"
          [] l = <<"R">> -> "00018"]

\* what the operator can type at the series prompt
SeriesInputs == { <<"g">>, <<"x">>, <<>>, <<"G", "H">> }

UpperChar(c) ==
    CASE c = "g" -> "G" [] c = "h" -> "H" [] c = "q" -> "Q" [] c = "r" -> "R"
      [] c = "x" -> "X" [] OTHER -> c

\* str.upper()
Upper(s) == [i \in 1..Len(s) |-> UpperChar(s[i])]

----------------------------------------------------------------------------
(* The evidence texts *)

EvCommunication == "Established communication with instrument."
EvSerial == "Serial number confirmed."
EvNotCompleted3 == "Test not completed"
EvNotCompleted == "Test not completed."
EvClockNotSet == "The instrument clock was not set successfully."
EvClockNotReset == "The instrument clock was not reset successfully."
EvClockSet == "Instrument clock set successfully."
EvIntervalNotSet == "The sample interval was not set successfully."
EvIntervalSet == "Sampling configuration changed successfully."
EvDateInvalid == "The sample does not contain a valid date stamp."
EvDateOk == "Correct date stamp confirmed."
EvDataInvalid == "The sample data are invalid."
EvDataOk == "Sample values seem reasonable."
EvPressureFail == "The pressure did not increase as expected."
EvPressureOk == "Pressure sensor correctly records changes."
EvTempFail == "The temperature did not increase as expected."
EvTempOk == "Temp data changes as expected."

----------------------------------------------------------------------------
(* ctdmo_qct_test: set-up and handshake *)

\* a loop goes back to its first statement
LoopBack == retries < MaxRetries /\ retries' = retries + 1

\* an exception leaves ctdmo_qct_test: nothing catches it
Raise == pc' = "raised"

OpenPort ==
    /\ pc = "start"
    /\ \/ /\ ser' = "open"
          /\ capfile_state' = "open"
          /\ pc' = "wake"
          /\ ret' = ret
       \/ /\ pc' = "done"
          /\ ret' = "Error! Unable to open port!"
          /\ UNCHANGED <<ser, capfile_state>>
    /\ UNCHANGED <<last_sent, last_logged, remote_id, step_results_p,
                   testdata, ds, sample_air, sample_bucket, seriesletter,
                   report, retries>>
    /\ UNCHANGED <<coms_vars, main_vars, microsecond>>

Wake ==
    /\ pc = "wake"
    /\ Exchange("pwron", Ack)
    /\ pc' = "identify"
    /\ UNCHANGED <<ser, capfile_state, remote_id, step_results_p, testdata, ds,
                   sample_air, sample_bucket, seriesletter, report, ret,
                   retries>>
    /\ UNCHANGED <<coms_vars, main_vars, microsecond>>

\* GetRemoteId whose caller goes on with whatever id was found
GetRemoteId_NoReassign ==
    /\ pc = "identify"
    /\ \E id_query \in IdReplies :
          /\ Exchange("id?", id_query)
          /\ IF ReSearchId(id_query) = None
             THEN /\ pc' = "identify_prompt"
                  /\ remote_id' = remote_id
             ELSE /\ remote_id' = ReSearchId(id_query)
                  /\ pc' = "setup"
    /\ UNCHANGED <<ser, capfile_state, step_results_p, testdata, ds,
                   sample_air, sample_bucket, seriesletter, report, ret,
                   retries>>
    /\ UNCHANGED <<coms_vars, main_vars, microsecond>>

\* get_remote_id, from the query to the prompt or the return
GetRemoteId ==
    /\ pc = "identify"
    /\ \E id_query \in IdReplies :
          /\ Exchange("id?", id_query)
          /\ IF ReSearchId(id_query) = None
             THEN /\ pc' = "identify_prompt"
                  /\ remote_id' = remote_id
             ELSE /\ remote_id' = ReSearchId(id_query)
                  /\ pc' = IF ReSearchId(id_query) # desired_id
                           THEN "reassign" ELSE "setup"
    /\ UNCHANGED <<ser, capfile_state, step_results_p, testdata, ds,
                   sample_air, sample_bucket, seriesletter, report, ret,
                   retries>>
    /\ UNCHANGED <<coms_vars, main_vars, microsecond>>

\* "Would you like to try again? [y]/n " of get_remote_id
IdentifyPrompt ==
    /\ pc = "identify_prompt"
    /\ \E answer \in Answers :
          IF answer = "n"
          THEN /\ remote_id' = None
               /\ pc' = "abort_identify.pwroff"
               /\ retries' = retries
          ELSE /\ LoopBack
               /\ pc' = "identify"
               /\ remote_id' = remote_id
    /\ UNCHANGED <<ser, capfile_state, last_sent, last_logged,
                   step_results_p, testdata, ds, sample_air, sample_bucket,
                   seriesletter, report, ret>>
    /\ UNCHANGED <<coms_vars, main_vars, microsecond>>

\* ResetRemoteId that takes every reply without the failure token as the
\* confirmation
ResetRemoteId_Unconfirmed ==
    /\ pc = "reassign"
    /\ \E response \in ReassignReplies :
          /\ Exchange("*id=" \o desired_id, response)
          /\ IF Contains(response, FailureToken)
             THEN /\ pc' = "reassign_prompt"
                  /\ UNCHANGED <<remote_id, retries>>
             ELSE /\ remote_id' = desired_id
                  /\ pc' = "setup"
                  /\ retries' = retries
    /\ UNCHANGED <<ser, capfile_state, step_results_p, testdata, ds,
                   sample_air, sample_bucket, seriesletter, report, ret>>
    /\ UNCHANGED <<coms_vars, main_vars, microsecond>>

\* reset_remote_id, from the command to the prompt, the return or the next
\* turn of its loop
ResetRemoteId ==
    /\ pc = "reassign"
    /\ \E response \in ReassignReplies :
          /\ Exchange("*id=" \o desired_id, response)
          /\ IF Contains(response, FailureToken)
             THEN /\ pc' = "reassign_prompt"
                  /\ UNCHANGED <<remote_id, retries>>
             ELSE IF Contains(response, IdConfirmation)
             THEN /\ remote_id' = desired_id
                  /\ pc' = "setup"
                  /\ retries' = retries
             ELSE /\ LoopBack
                  /\ pc' = "reassign"
                  /\ remote_id' = remote_id
    /\ UNCHANGED <<ser, capfile_state, step_results_p, testdata, ds,
                   sample_air, sample_bucket, seriesletter, report, ret>>
    /\ UNCHANGED <<coms_vars, main_vars, microsecond>>

\* "Would you like to try again? [y]/n " of reset_remote_id
ReassignPrompt ==
    /\ pc = "reassign_prompt"
    /\ \E answer \in Answers :
          IF answer = "n"
          THEN /\ remote_id' = None
               /\ pc' = "abort_reassign.pwroff"
               /\ retries' = retries
          ELSE /\ LoopBack
               /\ pc' = "reassign"
               /\ remote_id' = remote_id
    /\ UNCHANGED <<ser, capfile_state, last_sent, last_logged,
                   step_results_p, testdata, ds, sample_air, sample_bucket,
                   seriesletter, report, ret>>
    /\ UNCHANGED <<coms_vars, main_vars, microsecond>>

\* TidyUp without the pwroff exchange
TidyUp_NoSleep(site, msg) ==
    \/ /\ pc = site \o ".pwroff"
       /\ pc' = site \o ".capclose"
       /\ UNCHANGED <<ser, capfile_state, last_sent, last_logged, ret>>
    \/ /\ pc = site \o ".capclose"
       /\ capfile_state' = "closed"
       /\ pc' = site \o ".serclose"
       /\ UNCHANGED <<ser, last_sent, last_logged, ret>>
    \/ /\ pc = site \o ".serclose"
       /\ ser' = "closed"
       /\ pc' = "done"
       /\ ret' = msg
       /\ UNCHANGED <<capfile_state, last_sent, last_logged>>

\* tidy_up(ser, capfile), called at `site`, after which msg is returned
TidyUp(site, msg) ==
    \/ /\ pc = site \o ".pwroff"
       /\ Exchange("pwroff", Ack)
       /\ pc' = site \o ".capclose"
       /\ UNCHANGED <<ser, capfile_state, ret>>
    \/ /\ pc = site \o ".capclose"
       /\ capfile_state' = "closed"
       /\ pc' = site \o ".serclose"
       /\ UNCHANGED <<ser, last_sent, last_logged, ret>>
    \/ /\ pc = site \o ".serclose"
       /\ ser' = "closed"
       /\ pc' = "done"
       /\ ret' = msg
       /\ UNCHANGED <<capfile_state, last_sent, last_logged>>

TidyUpActions ==
    /\ \/ TidyUp("abort_identify", "Attention! Test cancelled by user.")
       \/ TidyUp("abort_reassign", "Error! Test cancelled by user.")
       \/ TidyUp("complete", "Test complete.")
    /\ UNCHANGED <<remote_id, step_results_p, testdata, ds, sample_air,
                   sample_bucket, seriesletter, report, retries>>
    /\ UNCHANGED <<coms_vars, main_vars, microsecond>>

\* the results lists, and the first step
SetUpResults ==
    /\ pc = "setup"
    /\ step_results_p' = ListSet(Repeat(FALSE, 10), 0, TRUE)
    /\ testdata' = ListSet(Repeat(NoEntry, 10), 0, <<EvCommunication>>)
    /\ pc' = "outputformat"
    /\ UNCHANGED <<ser, capfile_state, last_sent, last_logged, remote_id, ds,
                   sample_air, sample_bucket, seriesletter, report, ret,
                   retries>>
    /\ UNCHANGED <<coms_vars, main_vars, microsecond>>

OutputFormat ==
    /\ pc = "outputformat"
    /\ Exchange("#" \o remote_id \o "outputformat=1", Ack)
    /\ pc' = "ds"
    /\ UNCHANGED <<ser, capfile_state, remote_id, step_results_p, testdata, ds,
                   sample_air, sample_bucket, seriesletter, report, ret,
                   retries>>
    /\ UNCHANGED <<coms_vars, main_vars, microsecond>>

\* ReadStatus that passes step 2 for firmware 3.1 only
ReadStatus_FirmwareChecked ==
    /\ pc = "ds"
    /\ \E response \in DsIdentReplies :
          /\ Exchange("#" \o remote_id \o "ds", response)
          /\ ds' = response
          /\ IF Len(response) < 6
             THEN /\ Raise      \* IndexError: ds[5]
                  /\ UNCHANGED <<step_results_p, testdata, seriesletter>>
             ELSE /\ step_results_p' =
                        ListSet(ListSet(step_results_p, 1, TRUE), 2,
                                Get(response, 2) = "3.1")
                  /\ testdata' =
                        ListSet(ListSet(testdata, 1, <<EvSerial>>), 2,
                                <<"Firmware " \o Get(response, 2)
                                  \o " confirmed.">>)
                  /\ IF ("37-" \o Get(response, 5)) \in DOMAIN inv_dict
                     THEN /\ seriesletter' =
                                inv_dict["37-" \o Get(response, 5)]
                          /\ pc' = "getcc"
                     ELSE /\ seriesletter' = seriesletter
                          /\ pc' = "series_prompt"
    /\ UNCHANGED <<ser, capfile_state, remote_id, sample_air, sample_bucket,
                   report, ret, retries>>
    /\ UNCHANGED <<coms_vars, main_vars, microsecond>>

\* the status query of 8.3.7, steps 1 and 2 and the inventory look-up
ReadStatus ==
    /\ pc = "ds"
    /\ \E response \in DsIdentReplies :
          /\ Exchange("#" \o remote_id \o "ds", response)
          /\ ds' = response
          /\ IF Len(response) < 6
             THEN /\ Raise      \* IndexError: ds[5]
                  /\ UNCHANGED <<step_results_p, testdata, seriesletter>>
             ELSE /\ step_results_p' =
                        ListSet(ListSet(step_results_p, 1, TRUE), 2, TRUE)
                  /\ testdata' =
                        ListSet(ListSet(testdata, 1, <<EvSerial>>), 2,
                                <<"Firmware " \o Get(response, 2)
                                  \o " confirmed.">>)
                  /\ IF ("37-" \o Get(response, 5)) \in DOMAIN inv_dict
                     THEN /\ seriesletter' =
                                inv_dict["37-" \o Get(response, 5)]
                          /\ pc' = "getcc"
                     ELSE /\ seriesletter' = seriesletter
                          /\ pc' = "series_prompt"
    /\ UNCHANGED <<ser, capfile_state, remote_id, sample_air, sample_bucket,
                   report, ret, retries>>
    /\ UNCHANGED <<coms_vars, main_vars, microsecond>>

\* "Enter the instrument Series (G, H, Q or R): ", and the part number
\* look-up that follows the loop
SeriesPrompt ==
    /\ pc = "series_prompt"
    /\ \E typed \in SeriesInputs :
          /\ seriesletter' = Upper(typed)
          /\ IF Contains(<<"G", "H", "Q", "R">>, Upper(typed))
             THEN IF Upper(typed) \in DOMAIN partnumber_dict
                  THEN pc' = "getcc"
                  ELSE Raise    \* KeyError: partnumber_dict[seriesletter]
             ELSE pc' = pc
    /\ UNCHANGED <<ser, capfile_state, last_sent, last_logged, remote_id,
                   step_results_p, testdata, ds, sample_air, sample_bucket,
                   report, ret, retries>>
    /\ UNCHANGED <<coms_vars, main_vars, microsecond>>

\* 8.3.8
GetCalibration ==
    /\ pc = "getcc"
    /\ Exchange("#" \o remote_id \o "getcc", Ack)
    /\ pc' = "clock_rollback"
    /\ UNCHANGED <<ser, capfile_state, remote_id, step_results_p, testdata, ds,
                   sample_air, sample_bucket, seriesletter, report, ret,
                   retries>>
    /\ UNCHANGED <<coms_vars, main_vars, microsecond>>

----------------------------------------------------------------------------
(* 8.3.9 and 8.3.10: step 3, the instrument clock *)

\* the rollback of the clock to noon yesterday, and its check
ClockRollback ==
    /\ pc = "clock_rollback"
    /\ microsecond' \in Microseconds
    /\ testdata' = ListSet(testdata, 3, <<EvNotCompleted3>>)
    /\ \E response \in DsClockReplies :
          /\ Exchange2("#" \o remote_id \o "datetime=" \o "rollback_target",
                       Ack, "#" \o remote_id \o "ds", response)
          /\ IF DateUnparsable(response)
             THEN Raise
             ELSE IF ~ClockInTolerance(
                         Minus(DateTime(date_from_ds(response), 0),
                               DateTime(RollbackTarget, microsecond')))
                  THEN pc' = "rollback_bother"
                  ELSE pc' = "clock_reset"
    /\ UNCHANGED <<ser, capfile_state, remote_id, step_results_p, ds,
                   sample_air, sample_bucket, seriesletter, report, ret,
                   retries>>
    /\ UNCHANGED <<coms_vars, main_vars>>

\* "Does this bother you?" after the rollback check
RollbackBother ==
    /\ pc = "rollback_bother"
    /\ \E answer \in Answers :
          pc' = IF answer # "n" THEN "rollback_retry" ELSE "clock_reset"
    /\ UNCHANGED <<ser, capfile_state, last_sent, last_logged, remote_id,
                   step_results_p, testdata, ds, sample_air, sample_bucket,
                   seriesletter, report, ret, retries>>
    /\ UNCHANGED <<coms_vars, main_vars, microsecond>>

\* "Would you like to try again?" after the rollback check
RollbackRetry ==
    /\ pc = "rollback_retry"
    /\ \E answer \in Answers :
          IF answer = "n"
          THEN /\ testdata' = ListSet(testdata, 3, <<EvClockNotSet>>)
               /\ pc' = "clock_reset"
               /\ retries' = retries
          ELSE /\ LoopBack
               /\ pc' = "clock_rollback"
               /\ testdata' = testdata
    /\ UNCHANGED <<ser, capfile_state, last_sent, last_logged, remote_id,
                   step_results_p, ds, sample_air, sample_bucket,
                   seriesletter, report, ret>>
    /\ UNCHANGED <<coms_vars, main_vars, microsecond>>

\* step 3 is passed: lines 382-384 and 386-388
ClockPassed ==
    /\ step_results_p' = ListSet(step_results_p, 3, TRUE)
    /\ testdata' = ListSet(testdata, 3, <<EvClockSet>>)
    /\ pc' = "interval120"

\* the reset of the clock to the current time, and its check
ClockReset ==
    /\ pc = "clock_reset"
    /\ microsecond' \in Microseconds
    /\ \E response \in DsClockReplies :
          /\ Exchange2("#" \o remote_id \o "datetime=" \o "utcnow",
                       Ack, "#" \o remote_id \o "ds", response)
          /\ IF DateUnparsable(response)
             THEN /\ Raise
                  /\ UNCHANGED <<step_results_p, testdata>>
             ELSE IF ~ClockInTolerance(
                         Minus(DateTime(UtcNow, microsecond'),
                               DateTime(date_from_ds(response), 0)))
                  THEN /\ pc' = "reset_bother"
                       /\ UNCHANGED <<step_results_p, testdata>>
                  ELSE ClockPassed
    /\ UNCHANGED <<ser, capfile_state, remote_id, ds, sample_air,
                   sample_bucket, seriesletter, report, ret, retries>>
    /\ UNCHANGED <<coms_vars, main_vars>>

\* "Does this bother you?" after the reset check
ResetBother ==
    /\ pc = "reset_bother"
    /\ \E answer \in Answers :
          IF answer # "n"
          THEN /\ pc' = "reset_retry"
               /\ UNCHANGED <<step_results_p, testdata>>
          ELSE ClockPassed
    /\ UNCHANGED <<ser, capfile_state, last_sent, last_logged, remote_id, ds,
                   sample_air, sample_bucket, seriesletter, report, ret,
                   retries>>
    /\ UNCHANGED <<coms_vars, main_vars, microsecond>>

\* "Would you like to try again?" after the reset check
ResetRetry ==
    /\ pc = "reset_retry"
    /\ \E answer \in Answers :
          IF answer = "n"
          THEN /\ testdata' =
                     ListSet(testdata, 3,
                             IF Truthy(Get(testdata, 3))
                             THEN Get(testdata, 3) \o <<EvClockNotReset>>
                             ELSE <<EvClockNotReset>>)
               /\ pc' = "interval120"
               /\ retries' = retries
          ELSE /\ LoopBack
               /\ pc' = "clock_rollback"
               /\ testdata' = testdata
    /\ UNCHANGED <<ser, capfile_state, last_sent, last_logged, remote_id,
                   step_results_p, ds, sample_air, sample_bucket,
                   seriesletter, report, ret>>
    /\ UNCHANGED <<coms_vars, main_vars, microsecond>>

----------------------------------------------------------------------------
(* 8.3.11 and 8.3.12: steps 4 and 5, the sample interval.  The two loops   *)
(* differ in the interval and in line 429, which only step 5 has.          *)

\* step `step` is passed: lines 415-418, 420-423, 450-453, 455-458
IntervalPassed(step, tokens, next) ==
    /\ step_results_p' = ListSet(step_results_p, step, TRUE)
    /\ testdata' = ListSet(testdata, step,
                           <<EvIntervalSet, JoinSp(PySlice(tokens, 26, 31))>>)
    /\ pc' = next

\* IntervalAsConfigured comparing the intervals as numbers
IntervalAsConfigured_AsNumbers(tokens, desired) ==
    LET int(s) == CASE s \in {"120", "0120"} -> 120
                    [] s = "10" -> 10
                    [] s = "119" -> 119
    IN  int(Get(tokens, 29)) = int(desired)

\* lines 404 and 439, negated: sample_interval == desired_sample_interval,
\* two strings
IntervalAsConfigured(tokens, desired) == Get(tokens, 29) = desired

\* the interval is set and read back
SetInterval(step, desired_sample_interval, here, next) ==
    /\ pc = here
    /\ \E response \in DsIntervalReplies(desired_sample_interval) :
          /\ Exchange2("#" \o remote_id \o "sampleinterval="
                           \o desired_sample_interval,
                       Ack, "#" \o remote_id \o "ds", response)
          /\ ds' = response
          /\ IF Len(response) >= 30
                /\ IntervalAsConfigured(response, desired_sample_interval)
             THEN IntervalPassed(step, response, next)
             ELSE /\ step_results_p' =
                        IF step = 5 /\ Get(step_results_p, 5)     \* line 429
                        THEN ListSet(step_results_p, 5, FALSE)
                        ELSE step_results_p
                  /\ testdata' = ListSet(testdata, step, <<EvNotCompleted>>)
                  /\ IF Len(response) < 30
                     THEN Raise     \* IndexError: ds[29]
                     ELSE pc' = here \o "_bother"
    /\ UNCHANGED <<ser, capfile_state, remote_id, sample_air, sample_bucket,
                   seriesletter, report, ret, retries>>
    /\ microsecond' = 0       \* the reference times of step 3 are not read
                              \* again
    /\ UNCHANGED <<coms_vars, main_vars>>

\* "Does this bother you?" after the interval check
IntervalBother(step, here, next) ==
    /\ pc = here \o "_bother"
    /\ \E answer \in Answers :
          IF answer # "n"
          THEN /\ pc' = here \o "_retry"
               /\ UNCHANGED <<step_results_p, testdata>>
          ELSE IntervalPassed(step, ds, next)
    /\ UNCHANGED <<ser, capfile_state, last_sent, last_logged, remote_id, ds,
                   sample_air, sample_bucket, seriesletter, report, ret,
                   retries>>
    /\ UNCHANGED <<coms_vars, main_vars, microsecond>>

\* "Would you like to try again?" after the interval check
IntervalRetry(step, here, next) ==
    /\ pc = here \o "_retry"
    /\ \E answer \in Answers :
          IF answer = "n"
          THEN /\ testdata' = ListSet(testdata, step, <<EvIntervalNotSet, "">>)
               /\ pc' = next
               /\ retries' = retries
          ELSE /\ LoopBack
               /\ pc' = here
               /\ testdata' = testdata
    /\ UNCHANGED <<ser, capfile_state, last_sent, last_logged, remote_id,
                   step_results_p, ds, sample_air, sample_bucket,
                   seriesletter, report, ret>>
    /\ UNCHANGED <<coms_vars, main_vars, microsecond>>

Interval120 ==
    \/ SetInterval(4, "120", "interval120", "interval10")
    \/ IntervalBother(4, "interval120", "interval10")
    \/ IntervalRetry(4, "interval120", "interval10")

Interval10 ==
    \/ SetInterval(5, "10", "interval10", "sample_air")
    \/ IntervalBother(5, "interval10", "sample_air")
    \/ IntervalRetry(5, "interval10", "sample_air")

----------------------------------------------------------------------------
(* Samples ('ts').  A reply is a sequence of lines, a line the sequence of *)
(* its comma-separated fields: field 1 is the temperature, 2 the           *)
(* conductivity, 3 the pressure (in tenths of a unit), 4 the date (in days *)
(* from today, UTC), 5 the time.                                           *)

\* dt.utcnow().date()
UtcToday == 0

Sample(temperature, conductivity, pressure, date) ==
    <<"01", temperature, conductivity, pressure, date, "12:00:05">>

\* the first line of a reply
EchoLine == <<"ts">>

\* a data line cut short
ShortLine == <<"01">>

AirSamples ==
    { Sample(154, 0, 10, UtcToday),         \* both checks in tolerance
      Sample(350, 0, 10, UtcToday),         \* too warm
      Sample(154, 0, 10, UtcToday - 1),     \* dated yesterday
      Sample(350, 0, 10, UtcToday - 1) }    \* too warm and dated yesterday

BucketSamples ==
    { Sample(225, 0, 15, UtcToday),         \* warmer, more pressure
      Sample(225, 0, 10, UtcToday),         \* the same pressure
      Sample(159, 0, 15, UtcToday),         \* half a degree warmer
      Sample(159, 0, 10, UtcToday),         \* both
      Sample(164, 0, 15, UtcToday) }        \* one degree warmer

AirReplies ==
    {<<EchoLine, s>> : s \in AirSamples}
        \cup {<<EchoLine>>, <<EchoLine, ShortLine>>}

BucketReplies ==
    {<<EchoLine, s>> : s \in BucketSamples}
        \cup {<<EchoLine>>, <<EchoLine, ShortLine>>}

\* split_csv raises IndexError: csv.splitlines()[1] without a second line
NoSecondLine(csv) == Len(csv) < 2

\* split_csv: the fields of the second line
split_csv(csv) == Get(csv, 1)

\* ', '.join(sample): the line of evidence that shows a sample
JoinFields(sample) == sample

\* Implausible with the bounds themselves out of range
Implausible_BoundsExcluded(sample) ==
    \/ Get(sample, 1) <= 100 \/ Get(sample, 1) >= 300
    \/ Get(sample, 2) <= -10 \/ Get(sample, 2) >= 10
    \/ Get(sample, 3) <= -20 \/ Get(sample, 3) >= 20

\* lines 488-493
Implausible(sample) ==
    \/ Get(sample, 1) < 100 \/ Get(sample, 1) > 300
    \/ Get(sample, 2) < -10 \/ Get(sample, 2) > 10
    \/ Get(sample, 3) < -20 \/ Get(sample, 3) > 20

\* line 523
PressureNotGreater(bucket, air) == Get(bucket, 3) <= Get(air, 3)

\* float(s) - s for the temperatures of the samples above: the error of the
\* nearest double, in units of 2^-49 / 10 (15.4 is read as 15.4 + 2 units,
\* 16.4 as 16.4 - 8 units; 22.5 and 35.0 are doubles)
FloatError(t) ==
    CASE t = 154 -> 2
      [] t = 159 -> 2
      [] t = 164 -> -8
      [] t = 225 -> 0
      [] t = 350 -> 0

\* line 545: float(bucket[1]) - float(air[1]) < 1.0.  The difference of the
\* two doubles is that of the texts plus that of their errors; it is
\* rounded, which does not move it across 1.0
TemperatureNotWarmer(bucket, air) ==
    LET tenths == Get(bucket, 1) - Get(air, 1)
        error == FloatError(Get(bucket, 1)) - FloatError(Get(air, 1))
    IN  tenths < 10 \/ (tenths = 10 /\ error < 0)

----------------------------------------------------------------------------
(* 8.3.13 to 8.3.16: steps 6 to 9, the two samples *)

\* lines 487-512, reached with the lists p and td: the plausibility check
CheckPlausibility(p, td, sample) ==
    IF Implausible(sample)
    THEN /\ pc' = "plausibility_bother"
         /\ step_results_p' = p
         /\ testdata' = td
    ELSE /\ step_results_p' = ListSet(p, 7, TRUE)
         /\ testdata' = ListSet(td, 7, <<EvDataOk, JoinFields(sample)>>)
         /\ pc' = "immerse"

\* DatePassed with the flag of step 6 left as it is
DatePassed_FlagForgotten(p, td, sample) ==
    CheckPlausibility(p, ListSet(td, 6, <<EvDateOk>>), sample)

\* lines 480-485 and what follows
DatePassed(p, td, sample) ==
    CheckPlausibility(ListSet(p, 6, TRUE), ListSet(td, 6, <<EvDateOk>>),
                      sample)

\* the top of the sampling loop, the sample in air and the date check
AcquireAir ==
    /\ pc = "sample_air"
    /\ \E response \in AirReplies :
          LET p == SliceAssign(step_results_p, 6, 8, Repeat(FALSE, 3))
              td == SliceAssign(testdata, 6, 8, Repeat(<<EvNotCompleted>>, 3))
              sample == split_csv(response)
          IN  /\ Exchange("#" \o remote_id \o "ts", response)
              /\ IF NoSecondLine(response)
                 THEN /\ Raise
                      /\ step_results_p' = p
                      /\ testdata' = td
                      /\ sample_air' = sample_air
                 ELSE /\ sample_air' = sample
                      /\ IF Len(sample) < 5
                         THEN /\ Raise      \* IndexError: sample_air[4]
                              /\ step_results_p' = p
                              /\ testdata' = td
                         ELSE IF Get(sample, 4) # UtcToday
                         THEN /\ pc' = "date_bother"
                              /\ step_results_p' = p
                              /\ testdata' = td
                         ELSE DatePassed(p, td, sample)
    /\ UNCHANGED <<ser, capfile_state, remote_id, ds, sample_bucket,
                   seriesletter, report, ret, retries>>
    /\ UNCHANGED <<coms_vars, main_vars, microsecond>>

\* "Does this bother you?" after the date check
DateBother ==
    /\ pc = "date_bother"
    /\ \E answer \in Answers :
          IF answer # "n"
          THEN /\ pc' = "date_retry"
               /\ UNCHANGED <<step_results_p, testdata>>
          ELSE DatePassed(step_results_p, testdata, sample_air)
    /\ UNCHANGED <<ser, capfile_state, last_sent, last_logged, remote_id, ds,
                   sample_air, sample_bucket, seriesletter, report, ret,
                   retries>>
    /\ UNCHANGED <<coms_vars, main_vars, microsecond>>

\* "Would you like to try again?" after the date check
DateRetry ==
    /\ pc = "date_retry"
    /\ \E answer \in Answers :
          IF answer = "n"
          THEN /\ CheckPlausibility(
                     step_results_p,
                     ListSet(testdata, 6,
                             <<EvDateInvalid, JoinFields(sample_air)>>),
                     sample_air)
               /\ retries' = retries
          ELSE /\ LoopBack
               /\ pc' = "sample_air"
               /\ UNCHANGED <<step_results_p, testdata>>
    /\ UNCHANGED <<ser, capfile_state, last_sent, last_logged, remote_id, ds,
                   sample_air, sample_bucket, seriesletter, report, ret>>
    /\ UNCHANGED <<coms_vars, main_vars, microsecond>>

\* "Does this bother you?" after the plausibility check
PlausibilityBother ==
    /\ pc = "plausibility_bother"
    /\ \E answer \in Answers :
          IF answer # "n"
          THEN /\ pc' = "plausibility_retry"
               /\ UNCHANGED <<step_results_p, testdata>>
          ELSE /\ step_results_p' = ListSet(step_results_p, 7, TRUE)
               /\ testdata' = ListSet(testdata, 7,
                                      <<EvDataOk, JoinFields(sample_air)>>)
               /\ pc' = "immerse"
    /\ UNCHANGED <<ser, capfile_state, last_sent, last_logged, remote_id, ds,
                   sample_air, sample_bucket, seriesletter, report, ret,
                   retries>>
    /\ UNCHANGED <<coms_vars, main_vars, microsecond>>

\* "Would you like to try again?" after the plausibility check
PlausibilityRetry ==
    /\ pc = "plausibility_retry"
    /\ \E answer \in Answers :
          IF answer = "n"
          THEN /\ testdata' = ListSet(testdata, 7,
                                      <<EvDataInvalid, JoinFields(sample_air)>>)
               /\ pc' = "immerse"
               /\ retries' = retries
          ELSE /\ LoopBack
               /\ pc' = "sample_air"
               /\ testdata' = testdata
    /\ UNCHANGED <<ser, capfile_state, last_sent, last_logged, remote_id,
                   step_results_p, ds, sample_air, sample_bucket,
                   seriesletter, report, ret>>
    /\ UNCHANGED <<coms_vars, main_vars, microsecond>>

\* CheckTemperature that compares the sample in water with itself
CheckTemperature_SameSample(p, td, bucket, air) ==
    IF TemperatureNotWarmer(bucket, bucket)
    THEN /\ pc' = "temperature_bother"
         /\ step_results_p' = p
         /\ testdata' = td
    ELSE /\ step_results_p' = ListSet(p, 9, TRUE)
         /\ testdata' = ListSet(td, 9, <<EvTempOk>>)
         /\ pc' = "report"

\* lines 544-564, reached with the lists p and td: the temperature check
CheckTemperature(p, td, bucket, air) ==
    IF TemperatureNotWarmer(bucket, air)
    THEN /\ pc' = "temperature_bother"
         /\ step_results_p' = p
         /\ testdata' = td
    ELSE /\ step_results_p' = ListSet(p, 9, TRUE)
         /\ testdata' = ListSet(td, 9, <<EvTempOk>>)
         /\ pc' = "report"

\* lines 537-542 and what follows
PressurePassed(p, td, bucket, air) ==
    CheckTemperature(ListSet(p, 8, TRUE), ListSet(td, 8, <<EvPressureOk>>),
                     bucket, air)

\* "Press ENTER to continue...", the sample in water and the pressure check
AcquireBucket ==
    /\ pc = "immerse"
    /\ \E response \in BucketReplies :
          LET sample == split_csv(response)
          IN  /\ Exchange("#" \o remote_id \o "ts", response)
              /\ IF NoSecondLine(response)
                 THEN /\ Raise
                      /\ UNCHANGED <<step_results_p, testdata, sample_bucket>>
                 ELSE /\ sample_bucket' = sample
                      /\ IF Len(sample) < 4
                         THEN /\ Raise      \* IndexError: sample_bucket[3]
                              /\ UNCHANGED <<step_results_p, testdata>>
                         ELSE IF PressureNotGreater(sample, sample_air)
                         THEN /\ pc' = "pressure_bother"
                              /\ UNCHANGED <<step_results_p, testdata>>
                         ELSE PressurePassed(step_results_p, testdata, sample,
                                             sample_air)
    /\ UNCHANGED <<ser, capfile_state, remote_id, ds, sample_air,
                   seriesletter, report, ret, retries>>
    /\ UNCHANGED <<coms_vars, main_vars, microsecond>>

\* "Does this bother you?" after the pressure check
PressureBother ==
    /\ pc = "pressure_bother"
    /\ \E answer \in Answers :
          IF answer # "n"
          THEN /\ pc' = "pressure_retry"
               /\ UNCHANGED <<step_results_p, testdata>>
          ELSE PressurePassed(step_results_p, testdata, sample_bucket,
                              sample_air)
    /\ UNCHANGED <<ser, capfile_state, last_sent, last_logged, remote_id, ds,
                   sample_air, sample_bucket, seriesletter, report, ret,
                   retries>>
    /\ UNCHANGED <<coms_vars, main_vars, microsecond>>

\* "Would you like to try again?" after the pressure check
PressureRetry ==
    /\ pc = "pressure_retry"
    /\ \E answer \in Answers :
          IF answer = "n"
          THEN CheckTemperature(
                   step_results_p,
                   ListSet(testdata, 8,
                           <<EvPressureFail, JoinFields(sample_bucket)>>),
                   sample_bucket, sample_air)
          ELSE /\ pc' = "remove"
               /\ UNCHANGED <<step_results_p, testdata>>
    /\ UNCHANGED <<ser, capfile_state, last_sent, last_logged, remote_id, ds,
                   sample_air, sample_bucket, seriesletter, report, ret,
                   retries>>
    /\ UNCHANGED <<coms_vars, main_vars, microsecond>>

\* "Remove the instrument from the water now.", ENTER, continue
RemoveFromWater ==
    /\ pc = "remove"
    /\ LoopBack
    /\ pc' = "sample_air"
    /\ UNCHANGED <<ser, capfile_state, last_sent, last_logged, remote_id,
                   step_results_p, testdata, ds, sample_air, sample_bucket,
                   seriesletter, report, ret>>
    /\ UNCHANGED <<coms_vars, main_vars, microsecond>>

\* "Does this bother you?" after the temperature check
TemperatureBother ==
    /\ pc = "temperature_bother"
    /\ \E answer \in Answers :
          IF answer # "n"
          THEN /\ pc' = "temperature_retry"
               /\ UNCHANGED <<step_results_p, testdata>>
          ELSE /\ step_results_p' = ListSet(step_results_p, 9, TRUE)
               /\ testdata' = ListSet(testdata, 9, <<EvTempOk>>)
               /\ pc' = "report"
    /\ UNCHANGED <<ser, capfile_state, last_sent, last_logged, remote_id, ds,
                   sample_air, sample_bucket, seriesletter, report, ret,
                   retries>>
    /\ UNCHANGED <<coms_vars, main_vars, microsecond>>

\* "Would you like to try again?" after the temperature check
TemperatureRetry ==
    /\ pc = "temperature_retry"
    /\ \E answer \in Answers :
          IF answer = "n"
          THEN /\ testdata' = ListSet(testdata, 9,
                                      <<EvTempFail, JoinFields(sample_bucket)>>)
               /\ pc' = "report"
               /\ retries' = retries
          ELSE /\ LoopBack
               /\ pc' = "sample_air"
               /\ testdata' = testdata
    /\ UNCHANGED <<ser, capfile_state, last_sent, last_logged, remote_id,
                   step_results_p, ds, sample_air, sample_bucket,
                   seriesletter, report, ret>>
    /\ UNCHANGED <<coms_vars, main_vars, microsecond>>

----------------------------------------------------------------------------
(* The results document *)

\* lines 568-578: the 'Test Data', 'Pass' and 'Fail' cells of steps 0..9
WriteReport ==
    /\ pc = "report"
    /\ report' = [i \in 0..9 |->
                    [data |-> Get(testdata, i),
                     pass |-> IF Get(step_results_p, i) THEN "X" ELSE "",
                     fail |-> IF Get(step_results_p, i) THEN "" ELSE "X"]]
    /\ pc' = "complete.pwroff"
    /\ UNCHANGED <<ser, capfile_state, last_sent, last_logged, remote_id,
                   step_results_p, testdata, ds, sample_air, sample_bucket,
                   seriesletter, ret, retries>>
    /\ UNCHANGED <<coms_vars, main_vars, microsecond>>

----------------------------------------------------------------------------
(* The runner *)

\* the main loop where it calls ctdmo_qct_test for the first time
FirstTestCalled ==
    /\ main_pc = "test"
    /\ port = PortName
    /\ formnumber = <<"0", "0", "1", "2", "3">>
    /\ runs = <<>>
    /\ files = <<>>

\* ctdmo_qct_test and ser_coms before their first statement
RunnerAtStart ==
    /\ pc = "start"
    /\ ser = "none"
    /\ capfile_state = "none"
    /\ last_sent = <<>>
    /\ last_logged = None
    /\ remote_id = None
    /\ step_results_p = <<>>
    /\ testdata = <<>>
    /\ ds = <<>>
    /\ sample_air = <<>>
    /\ sample_bucket = <<>>
    /\ seriesletter = <<>>
    /\ report = <<>>
    /\ ret = None
    /\ retries = 0
    /\ microsecond = 0
    /\ coms_pc = "idle"
    /\ sent = <<>>
    /\ capfile = <<>>
    /\ wire = <<>>
    /\ cap = <<>>
    /\ returned = [count |-> 0, value |-> <<>>]
    /\ reply = [stale |-> <<>>, fragments |-> <<>>]
    /\ empty_reads = 0

Init == RunnerAtStart /\ FirstTestCalled

Next ==
    \/ OpenPort
    \/ Wake
    \/ GetRemoteId
    \/ IdentifyPrompt
    \/ ResetRemoteId
    \/ ReassignPrompt
    \/ TidyUpActions
    \/ SetUpResults
    \/ OutputFormat
    \/ ReadStatus
    \/ SeriesPrompt
    \/ GetCalibration
    \/ ClockRollback
    \/ RollbackBother
    \/ RollbackRetry
    \/ ClockReset
    \/ ResetBother
    \/ ResetRetry
    \/ Interval120
    \/ Interval10
    \/ AcquireAir
    \/ DateBother
    \/ DateRetry
    \/ PlausibilityBother
    \/ PlausibilityRetry
    \/ AcquireBucket
    \/ PressureBother
    \/ PressureRetry
    \/ RemoveFromWater
    \/ TemperatureBother
    \/ TemperatureRetry
    \/ WriteReport

Spec == Init /\ [][Next]_vars

----------------------------------------------------------------------------
(* The main program loop (lines 599-634).  A call of ctdmo_qct_test is one *)
(* step here: it opens the capture file named by the form number, unless   *)
(* the port cannot be opened, and returns or raises.                       *)

\* select_port(): None or a port
PortsSelected == {None, PortName}

\* open(name, 'w') by the call number run: a file of that name is created
\* or truncated, and then holds the transcript of this call
OpenForWriting(name, run) ==
    [n \in DOMAIN files \cup {name} |-> IF n = name THEN run ELSE files[n]]

\* lines 608-618 and 629-634: the menu, up to the prompt for the form number
Menu ==
    /\ main_pc = "menu"
    /\ \E selection \in Selections :
          CASE selection = "1" ->
                 \E selected \in PortsSelected :
                    /\ port' = IF port = None THEN selected ELSE port
                    /\ main_pc' = IF port' = None THEN "menu" ELSE "formnumber"
            [] selection = "2" ->
                 /\ port' \in PortsSelected
                 /\ main_pc' = "menu"
            [] selection = "3" ->
                 /\ main_pc' = "quit"
                 /\ port' = port
            [] OTHER ->
                 UNCHANGED <<main_pc, port>>
    /\ UNCHANGED <<formnumber, runs, files>>
    /\ UNCHANGED <<runner_vars, coms_vars>>

\* set_formnumber (lines 29-44), one prompt at a time
SetFormnumber ==
    /\ main_pc = "formnumber"
    /\ Len(runs) < MaxRuns
    /\ IF formnumber = NoFormnumber
       THEN \E typed \in FormnumberInputs :
               IF ValidFormnumber(typed)
               THEN formnumber' = typed /\ main_pc' = "test"
               ELSE UNCHANGED <<formnumber, main_pc>>
       ELSE /\ formnumber' = IncrementFormnumber(formnumber)
            /\ main_pc' = "test"
    /\ UNCHANGED <<port, runs, files>>
    /\ UNCHANGED <<runner_vars, coms_vars>>

\* line 622: ctdmo_qct_test(port, username, formnumber) as one step
RunTest ==
    /\ main_pc = "test"
    /\ Len(runs) < MaxRuns
    /\ \E opened \in BOOLEAN, raised \in BOOLEAN :
          /\ ~opened => ~raised       \* line 215: returns before line 218
          /\ runs' = Append(runs, [formnumber |-> formnumber,
                                    transcript |-> opened])
          /\ files' = IF opened
                      THEN OpenForWriting(CaptureFileName(formnumber),
                                          Len(runs) + 1)
                      ELSE files
          /\ main_pc' = IF raised THEN "raised" ELSE "again"
    /\ UNCHANGED <<port, formnumber>>
    /\ UNCHANGED <<runner_vars, coms_vars>>

\* lines 623-626: "Would you like to test another instrument? y/[n] "
Again ==
    /\ main_pc = "again"
    /\ \E again \in Answers :
          IF again # "y"
          THEN formnumber' = NoFormnumber /\ main_pc' = "menu"
          ELSE formnumber' = formnumber /\ main_pc' = "enter"
    /\ UNCHANGED <<port, runs, files>>
    /\ UNCHANGED <<runner_vars, coms_vars>>

\* line 627: "Type ENTER to begin the next test..."
PressEnter ==
    /\ main_pc = "enter"
    /\ main_pc' = "formnumber"
    /\ UNCHANGED <<port, formnumber, runs, files>>
    /\ UNCHANGED <<runner_vars, coms_vars>>

\* lines 599-603
InitMain ==
    /\ RunnerAtStart
    /\ main_pc = "menu"
    /\ port = None
    /\ formnumber = NoFormnumber
    /\ runs = <<>>
    /\ files = <<>>

NextMain ==
    \/ Menu
    \/ SetFormnumber
    \/ RunTest
    \/ Again
    \/ PressEnter

SpecMain == InitMain /\ [][NextMain]_vars

----------------------------------------------------------------------------
(* ser_coms, read by read.  The device sends a reply as fragments; a       *)
(* fragment is some bytes that arrive together, `gap` seconds after what    *)
(* was sent before them.  wire holds the fragments still to arrive.        *)

\* serial.Serial(port, baudrate, timeout=5): the seconds a read waits
Timeout == 5

\* the pauses of the device: shorter than a read waits, and as long
Gaps == {1, Timeout}

FragmentData == { <<"t">>, <<"1", "2">> }

Fragments == [gap : Gaps, data : FragmentData]

\* the replies of the device: up to MaxFragments fragments
DeviceReplies ==
    UNION {[1..n -> Fragments] : n \in 0..MaxFragments}

\* the commands, as characters; the device may echo one
CommandTexts == { <<"t">> }

\* all the bytes of a sequence of fragments, in order
RECURSIVE Bytes(_)
Bytes(fragments) ==
    IF fragments = <<>> THEN <<>>
    ELSE Head(fragments).data \o Bytes(Tail(fragments))

\* the fragments at the head of w that have arrived: ser.in_waiting counts
\* their bytes
RECURSIVE Arrived(_)
Arrived(w) ==
    IF w = <<>> \/ Head(w).gap > 0 THEN <<>>
    ELSE <<Head(w)>> \o Arrived(Tail(w))

\* lines 98-99: the input buffer is emptied and the command written.  Of
\* the fragments of an earlier reply that were still to arrive, those that
\* arrived in between are thrown away, the others come before the new reply
ComsCall ==
    /\ coms_pc = "idle"
    /\ Len(sent) < MaxCalls
    /\ \E cmd \in CommandTexts, r \in DeviceReplies, k \in 0..Len(wire) :
          /\ sent' = Append(sent, cmd)
          /\ reply' = [stale |-> SubSeq(wire, k + 1, Len(wire)),
                        fragments |-> r]
          /\ wire' = SubSeq(wire, k + 1, Len(wire)) \o r
    /\ cap' = <<>>
    /\ empty_reads' = 0
    /\ coms_pc' = "written"
    /\ UNCHANGED <<capfile, returned>>
    /\ UNCHANGED <<runner_vars, main_vars>>

\* line 100: cap = ser.read(ser.in_waiting), which does not wait
ReadWaiting ==
    /\ coms_pc = "written"
    /\ cap' = Bytes(Arrived(wire))
    /\ wire' = SubSeq(wire, Len(Arrived(wire)) + 1, Len(wire))
    /\ empty_reads' = IF Arrived(wire) = <<>> THEN 1 ELSE 0
    /\ coms_pc' = "loop"
    /\ UNCHANGED <<sent, capfile, returned, reply>>
    /\ UNCHANGED <<runner_vars, main_vars>>

\* ser.read(1) gets a byte: one arrives before the timeout
ByteInTime(w) == w # <<>> /\ Head(w).gap < Timeout

\* AfterByte that loses the bytes that arrived with the one taken
AfterByte_RestLost(w) == Tail(w)

\* the wire after ser.read(1) took a byte
AfterByte(w) ==
    IF Len(Head(w).data) = 1 THEN Tail(w)
    ELSE <<[gap |-> 0, data |-> Tail(Head(w).data)]>> \o Tail(w)

\* the wire after ser.read(1) waited Timeout seconds in vain
AfterTimeout(w) ==
    IF w = <<>> THEN w
    ELSE <<[Head(w) EXCEPT !.gap = @ - Timeout]>> \o Tail(w)

\* ComsReturn that writes over what the file holds
ComsReturn_Overwrites ==
    /\ capfile' = <<cap>>
    /\ returned' = [count |-> returned.count + 1, value |-> cap]
    /\ coms_pc' = "idle"

\* the response is complete: ser_coms writes it to the file and returns it
ComsReturn ==
    /\ capfile' = Append(capfile, cap)
    /\ returned' = [count |-> returned.count + 1, value |-> cap]
    /\ coms_pc' = "idle"

\* Read1 that returns at the second empty read in a row
Read1_TwoEmptyReads ==
    /\ coms_pc = "loop"
    /\ IF ByteInTime(wire)
       THEN /\ cap' = Append(cap, Head(Head(wire).data))
            /\ wire' = AfterByte(wire)
            /\ empty_reads' = 0
            /\ UNCHANGED <<capfile, returned, coms_pc>>
       ELSE /\ wire' = AfterTimeout(wire)
            /\ empty_reads' = empty_reads + 1
            /\ cap' = cap
            /\ IF empty_reads >= 1
               THEN ComsReturn
               ELSE UNCHANGED <<capfile, returned, coms_pc>>
    /\ UNCHANGED <<sent, reply>>
    /\ UNCHANGED <<runner_vars, main_vars>>

\* lines 102-106: one turn of the loop
Read1 ==
    /\ coms_pc = "loop"
    /\ IF ByteInTime(wire)
       THEN /\ cap' = Append(cap, Head(Head(wire).data))
            /\ wire' = AfterByte(wire)
            /\ empty_reads' = 0
            /\ UNCHANGED <<capfile, returned, coms_pc>>
       ELSE /\ wire' = AfterTimeout(wire)
            /\ empty_reads' = empty_reads + 1
            /\ cap' = cap
            /\ ComsReturn
    /\ UNCHANGED <<sent, reply>>
    /\ UNCHANGED <<runner_vars, main_vars>>

NextComs ==
    \/ ComsCall
    \/ ReadWaiting
    \/ Read1

SpecComs == Init /\ [][NextComs]_vars

----------------------------------------------------------------------------
(* The plausibility check on its own: the runner at line 487, with a       *)
(* sample in air whose date stamp was confirmed, for samples on and around *)
(* the bounds of the check.                                                *)

GridTemperatures == {99, 100, 150, 300, 301}

GridConductivities == {-11, -10, 0, 10, 11}

GridPressures == {-21, -20, 0, 20, 21}

GridSamples ==
    {Sample(t, c, p, UtcToday) :
        t \in GridTemperatures, c \in GridConductivities,
        p \in GridPressures}

\* the lists after steps 0 to 6 passed in the first pass of the sampling
\* loop
PassedToDateStamp ==
    [flags |-> Repeat(TRUE, 7) \o Repeat(FALSE, 4),
     data |-> << <<EvCommunication>>, <<EvSerial>>,
                 <<"Firmware 3.1 confirmed.">>, <<EvClockSet>>,
                 <<EvIntervalSet, "sample interval = 120 seconds">>,
                 <<EvIntervalSet, "sample interval = 10 seconds">>,
                 <<EvDateOk>>, <<EvNotCompleted>>, <<EvNotCompleted>>,
                 NoEntry, NoEntry >>]

InitPlausibility ==
    /\ pc = "plausibility"
    /\ ser = "open"
    /\ capfile_state = "open"
    /\ remote_id = desired_id
    /\ sample_air \in GridSamples
    /\ last_sent = <<"#" \o desired_id \o "ts">>
    /\ last_logged = Logged("#" \o desired_id \o "ts", <<EchoLine, sample_air>>)
    /\ step_results_p = PassedToDateStamp.flags
    /\ testdata = PassedToDateStamp.data
    /\ ds = DsReply("12345", UtcNow - 5, "10")
    /\ sample_bucket = <<>>
    /\ seriesletter = <<"G">>
    /\ report = <<>>
    /\ ret = None
    /\ retries = 0
    /\ microsecond = 0
    /\ coms_pc = "idle"
    /\ sent = <<>>
    /\ capfile = <<>>
    /\ wire = <<>>
    /\ cap = <<>>
    /\ returned = [count |-> 0, value |-> <<>>]
    /\ reply = [stale |-> <<>>, fragments |-> <<>>]
    /\ empty_reads = 0
    /\ FirstTestCalled

\* lines 487-512, up to the prompt
PlausibilityCheck ==
    /\ pc = "plausibility"
    /\ CheckPlausibility(step_results_p, testdata, sample_air)
    /\ UNCHANGED <<ser, capfile_state, last_sent, last_logged, remote_id, ds,
                   sample_air, sample_bucket, seriesletter, report, ret,
                   retries>>
    /\ UNCHANGED <<coms_vars, main_vars, microsecond>>

NextPlausibility ==
    \/ PlausibilityCheck
    \/ PlausibilityBother
    \/ PlausibilityRetry

SpecPlausibility == InitPlausibility /\ [][NextPlausibility]_vars

----------------------------------------------------------------------------
(* Evidence texts by kind *)

FailureTexts ==
    {EvClockNotSet, EvClockNotReset, EvIntervalNotSet, EvDateInvalid,
     EvDataInvalid, EvPressureFail, EvTempFail}

SuccessTexts ==
    {EvCommunication, EvSerial, "Firmware 3.1 confirmed.",
     "Firmware 2.0 confirmed.", EvClockSet,
     EvIntervalSet, EvDateOk, EvDataOk, EvPressureOk, EvTempOk}

\* the entry says that the step failed: its first line does, or the line
\* that line 375 added to "Test not completed"
IsFailure(entry) ==
    /\ entry # NoEntry
    /\ \/ Head(entry) \in FailureTexts
       \/ /\ Head(entry) = EvNotCompleted3
          /\ Len(entry) >= 2
          /\ entry[2] \in FailureTexts

IsSuccess(entry) == entry # NoEntry /\ Head(entry) \in SuccessTexts

Steps == 0..9

\* ctdmo_qct_test returned "Test complete."
Completed == pc = "done" /\ ret = "Test complete."

\* the positions of the runner from which the results lists exist
ListsExist == Len(step_results_p) > 0

----------------------------------------------------------------------------
(* C1 *)

\* C1: after a completed run no step is reported passed together with
\* failure evidence, nor failed together with success evidence.
C1_FlagMatchesEvidence ==
    Completed =>
        \A i \in Steps :
            /\ ~(report[i].pass = "X" /\ IsFailure(report[i].data))
            /\ ~(report[i].fail = "X" /\ IsSuccess(report[i].data))

----------------------------------------------------------------------------
(* C2 *)

\* C2: from their creation on, the pass flags and the evidence are lists of
\* exactly 10 entries, and all 10 are filled when the run completes.
C2_TenOutcomes ==
    /\ ListsExist => Len(step_results_p) = 10 /\ Len(testdata) = 10
    /\ Completed => \A i \in Steps : Truthy(Get(testdata, i))

----------------------------------------------------------------------------
(* C3 *)

\* the "try again?" prompt of each tolerance check, and the step it belongs to
RetryPrompts ==
    [rollback_retry |-> 3, reset_retry |-> 3, interval120_retry |-> 4,
     interval10_retry |-> 5, date_retry |-> 6, plausibility_retry |-> 7,
     pressure_retry |-> 8, temperature_retry |-> 9]

\* the prompt at pc is left without a loop-back: the operator declined
Declined(prompts) ==
    /\ pc \in prompts
    /\ pc' # pc
    /\ retries' = retries
    /\ pc' # "remove"

StepFailed(p, td, step) == ~Get(p, step) /\ IsFailure(Get(td, step))

\* C3: when the operator declines the retry of a failed tolerance check, the
\* step of that check is Failed with diagnostic evidence, and it still is
\* when the runner moves on to the next step.
C3_DeclinedRetryFails ==
    [][ /\ Declined(DOMAIN RetryPrompts)
            => StepFailed(step_results_p', testdata', RetryPrompts[pc])
        /\ (/\ pc \in {"clock_reset", "reset_bother", "reset_retry"}
            /\ Head(Get(testdata, 3)) = EvClockNotSet
            /\ pc' = "interval120")
            => StepFailed(step_results_p', testdata', 3) ]_vars

----------------------------------------------------------------------------
(* C4 *)

\* the "does this bother you?" prompt of each tolerance check, and its step
BotherPrompts ==
    [rollback_bother |-> 3, reset_bother |-> 3, interval120_bother |-> 4,
     interval10_bother |-> 5, date_bother |-> 6, plausibility_bother |-> 7,
     pressure_bother |-> 8, temperature_bother |-> 9]

\* the prompt at pc is answered 'n': the retry prompt does not follow
Dismissed(prompts) ==
    /\ pc \in prompts
    /\ pc' # pc
    /\ pc' \notin DOMAIN RetryPrompts

StepPassed(p, td, step) == Get(p, step) /\ IsSuccess(Get(td, step))

\* the step is marked Passed, no retry is offered, no command is sent
DismissedAsPassed(prompts) ==
    Dismissed(prompts) =>
        /\ StepPassed(step_results_p', testdata', BotherPrompts[pc])
        /\ last_sent' = last_sent
        /\ retries' = retries

\* C4 as claimed: a dismissed concern marks the step Passed, for every
\* tolerance check.
C4_Original == [][DismissedAsPassed(DOMAIN BotherPrompts)]_vars

\* C4: a dismissed concern marks the step Passed with evidence, without a
\* retry prompt and without a command, for every tolerance check but the
\* clock rollback; dismissing the rollback concern records nothing and goes
\* on to the clock reset check, which decides step 3.
C4_DismissedConcernPasses ==
    [][ /\ DismissedAsPassed(DOMAIN BotherPrompts \ {"rollback_bother"})
        /\ Dismissed({"rollback_bother"}) =>
              /\ pc' = "clock_reset"
              /\ UNCHANGED <<step_results_p, testdata, last_sent, retries>>
      ]_vars

\* the date check failed, the concern was dismissed and step 6 is passed
C4_Witness ==
    /\ pc = "immerse"
    /\ Get(sample_air, 4) # UtcToday
    /\ StepPassed(step_results_p, testdata, 6)

----------------------------------------------------------------------------
(* C5 *)

\* the prompts at which the operator decides to go round a loop again
LoopPrompts ==
    {"identify_prompt", "reassign_prompt", "remove"}
        \cup (DOMAIN RetryPrompts \ {"pressure_retry"})

\* C5: a loop goes back to its command only from a prompt at which the
\* operator decided to retry.
C5_NoAutomaticRetry == [][retries' # retries => pc \in LoopPrompts]_vars

----------------------------------------------------------------------------
(* C6 *)

AbortPcs ==
    {site \o step : site \in {"abort_identify", "abort_reassign"},
                    step \in {".pwroff", ".capclose", ".serclose"}}

CancelMessages ==
    {"Attention! Test cancelled by user.", "Error! Test cancelled by user."}

\* C6: a declined retry in the identify or the reassignment loop leads to
\* the teardown: pwroff is sent and its response logged, then the capture
\* file is closed, then the port; nothing else is sent, no step is checked,
\* and a cancellation message is returned.
C6_OrderlyAbort ==
    /\ [][ /\ Declined({"identify_prompt", "reassign_prompt"})
               => pc' \in {"abort_identify.pwroff", "abort_reassign.pwroff"}
           /\ (pc \in AbortPcs /\ last_sent' # last_sent)
               => /\ last_sent' = <<"pwroff">>
                  /\ last_logged' = Logged("pwroff", Ack)
                  /\ capfile_state = "open" /\ ser = "open"
           /\ (pc \in AbortPcs /\ capfile_state' # capfile_state)
               => /\ capfile_state' = "closed"
                  /\ last_logged = Logged("pwroff", Ack)
                  /\ ser = "open"
           /\ (pc \in AbortPcs /\ ser' # ser)
               => /\ ser' = "closed"
                  /\ capfile_state = "closed"
                  /\ ret' \in CancelMessages
                  /\ pc' = "done"
           /\ pc \in AbortPcs
               => /\ pc' \in AbortPcs \cup {"done"}
                  /\ ~ListsExist' ]_vars
    /\ [](pc = "done" /\ ret \in CancelMessages
            => /\ ser = "closed" /\ capfile_state = "closed"
               /\ last_sent = <<"pwroff">>
               /\ ~ListsExist)

\* the run was cancelled at the reassignment prompt and has returned
C6_Witness ==
    /\ pc = "done"
    /\ ret = "Error! Test cancelled by user."
    /\ ser = "closed"

----------------------------------------------------------------------------
(* C7 *)

\* control has left ctdmo_qct_test, by a return or by an exception
Left == pc \in {"done", "raised"}

\* C7: when control leaves ctdmo_qct_test after the port was opened, the
\* capture file is closed and the port released.
C7_ClosedOnExit ==
    (Left /\ ser # "none") => (capfile_state = "closed" /\ ser = "closed")

----------------------------------------------------------------------------
(* C8 *)

\* ser_coms returns in this step
Returns == coms_pc = "loop" /\ coms_pc' = "idle"

\* C8 as claimed: a response is complete only after two consecutive reads
\* that gave no data.
C8_Original == [][Returns => empty_reads' >= 2]_vars

\* C8: a response is complete at the first ser.read(1) that gives no data:
\* one timed-out read ends the exchange, also after bytes were received;
\* only when no byte was received at all is it the second empty read, after
\* the empty ser.read(ser.in_waiting).
C8_OneEmptyReadEnds ==
    [][coms_pc = "loop" =>
          /\ Returns <=> cap' = cap
          /\ Returns => /\ empty_reads' = empty_reads + 1
                        /\ empty_reads' <= 2
                        /\ empty_reads' = 2 => cap = <<>> ]_vars

\* an exchange that received bytes has ended after one empty read
C8_Witness ==
    /\ coms_pc = "idle"
    /\ returned.count >= 1
    /\ Len(returned.value) >= 1
    /\ empty_reads = 1

----------------------------------------------------------------------------
(* C9 *)

\* the fragments at the head of w that ser_coms does not time out on
RECURSIVE InTime(_)
InTime(w) ==
    IF w = <<>> \/ Head(w).gap >= Timeout THEN <<>>
    ELSE <<Head(w)>> \o InTime(Tail(w))

\* every fragment arrives before a read times out
NoLongPause(w) == \A i \in 1..Len(w) : w[i].gap < Timeout

\* ser_coms has returned and was not called again
Returned == coms_pc = "idle" /\ returned.count >= 1

\* one value per command, and that value is the last text of the file
OncePerCommand ==
    /\ returned.count = Len(sent)
    /\ Len(capfile) = Len(sent)
    /\ capfile[Len(capfile)] = returned.value

\* C9 as claimed: ser_coms returns, once per command, all fragments of the
\* reply in order, and logs what it returns.
C9_Original ==
    Returned =>
        /\ returned.value = Bytes(reply.fragments)
        /\ OncePerCommand

\* C9: ser_coms returns, once per command, the bytes that arrive before the
\* first pause as long as the read timeout, in order, and logs what it
\* returns; that is all fragments of the reply when each follows within the
\* timeout and nothing of an earlier reply is still to arrive.
C9_ReassemblesUntilLongPause ==
    Returned =>
        /\ returned.value = Bytes(InTime(reply.stale \o reply.fragments))
        /\ (reply.stale = <<>> /\ NoLongPause(reply.fragments))
              => returned.value = Bytes(reply.fragments)
        /\ OncePerCommand

\* a reply of two different fragments with a short pause was returned whole
C9_Witness ==
    /\ Returned
    /\ reply.stale = <<>>
    /\ Len(reply.fragments) = 2
    /\ NoLongPause(reply.fragments)
    /\ reply.fragments[1].data # reply.fragments[2].data
    /\ returned.value = Bytes(reply.fragments)

----------------------------------------------------------------------------
(* C10 *)

\* C10 as claimed: the capture file holds, for every exchange, the text of
\* the command and the response.
C10_Original ==
    Returned =>
        \A i \in 1..Len(capfile) : Contains(capfile[i], sent[i])

\* C10: the capture file holds, in the order of the exchanges, the response
\* that ser_coms returned for each command and nothing else (the command
\* only where the device echoes it), and what is written is never altered.
C10_ResponsesLoggedInOrder ==
    /\ [](/\ Len(capfile) = returned.count
          /\ Len(capfile) <= Len(sent)
          /\ Len(sent) <= Len(capfile) + 1
          /\ Returned => capfile[Len(capfile)] = returned.value)
    /\ [][ /\ SubSeq(capfile', 1, Len(capfile)) = capfile
           /\ capfile' # capfile => capfile' = Append(capfile, cap) ]_vars

\* two exchanges are logged, the first without the text of its command
C10_Witness ==
    /\ Returned
    /\ Len(capfile) = 2
    /\ ~Contains(capfile[1], sent[1])
    /\ capfile[1] # <<>>

----------------------------------------------------------------------------
(* C11 *)

\* the time the instrument showed in the status reply logged last
InstrumentTime == DateTime(date_from_ds(last_logged.text), 0)

\* instrument time minus the noon-yesterday target
RollbackDifference ==
    Minus(InstrumentTime, DateTime(RollbackTarget, microsecond))

\* current UTC time minus instrument time
ResetDifference == Minus(DateTime(UtcNow, microsecond), InstrumentTime)

\* a time difference between 0 and 15 seconds inclusive
WithinFifteenSeconds(d) ==
    /\ 0 <= d.whole
    /\ d.whole < 15 \/ (d.whole = 15 /\ d.microseconds = 0)

\* C11: each clock check is within tolerance exactly when the time
\* difference is between 0 and 15 seconds inclusive; every other difference,
\* negative ones and those of whole days plus a few seconds included, takes
\* the tolerance-violation path.
C11_ClockTolerance ==
    [][ /\ (pc = "clock_rollback" /\ pc' # "raised")
            => (pc' = "clock_reset"
                    <=> WithinFifteenSeconds(RollbackDifference'))
        /\ (pc = "clock_reset" /\ pc' # "raised")
            => (pc' # "reset_bother"
                    <=> WithinFifteenSeconds(ResetDifference')) ]_vars

----------------------------------------------------------------------------
(* C12 *)

\* the enumerated series letters
SeriesLetters == {<<"G">>, <<"H">>, <<"Q">>, <<"R">>}

\* C12: the series prompt loop ends only with an input that, upper-cased, is
\* one of the single letters G, H, Q, R; every other input is asked again,
\* and the part number look-up that follows does not fail.
C12_SeriesPromptRestricted ==
    [][ pc = "series_prompt" =>
          /\ pc' # pc => seriesletter' \in SeriesLetters /\ pc' = "getcc"
          /\ seriesletter' \notin SeriesLetters => pc' = pc ]_vars

----------------------------------------------------------------------------
(* C13 *)

\* the step whose check the code at position p belongs to; 10 after the
\* last check
StepAt(p) ==
    CASE p \in {"outputformat", "ds"} -> 1
      [] p \in {"series_prompt", "getcc", "clock_rollback", "rollback_bother",
                "rollback_retry", "clock_reset", "reset_bother",
                "reset_retry"} -> 3
      [] p \in {"interval120", "interval120_bother", "interval120_retry"} -> 4
      [] p \in {"interval10", "interval10_bother", "interval10_retry"} -> 5
      [] p \in {"sample_air", "date_bother", "date_retry"} -> 6
      [] p \in {"plausibility_bother", "plausibility_retry"} -> 7
      [] p \in {"immerse", "pressure_bother", "pressure_retry", "remove"} -> 8
      [] p \in {"temperature_bother", "temperature_retry"} -> 9
      [] OTHER -> 10

\* the texts of a step that was not judged yet
NotJudgedTexts == {EvNotCompleted, EvNotCompleted3}

\* the check of step i has come to a result
Judged(td, i) == Get(td, i) # NoEntry /\ Head(Get(td, i)) \notin NotJudgedTexts

\* the outcome of step i
Outcome(p, td, i) == <<Get(p, i), Get(td, i)>>

\* this step of the runner changes the outcome of step i
OutcomeChanges(i) ==
    Outcome(step_results_p', testdata', i)
        # Outcome(step_results_p, testdata, i)

\* C13 as claimed: once a later step was judged, the outcome of an earlier
\* step never changes.
C13_Original ==
    [][ ListsExist =>
          \A i \in 0..8 :
              (\E j \in (i + 1)..9 : Judged(testdata, j))
                  => ~OutcomeChanges(i) ]_vars

\* C13: the runner never changes the outcome of a step before the one whose
\* loop it is in: steps 0 to 5 are frozen once the runner has moved on.  The
\* steps 6 to 9 are judged in one loop, and only within that loop, after a
\* restart, the outcome of a step changes although a later one was judged.
C13_FrozenBeforeCurrentLoop ==
    [][ ListsExist =>
          \A i \in Steps :
              OutcomeChanges(i) =>
                  /\ i >= StepAt(pc)
                  /\ (\E j \in (i + 1)..9 : Judged(testdata, j))
                        => i >= 6 /\ StepAt(pc) \in 6..9 ]_vars

\* the sampling loop was restarted after step 8 had been judged (its old
\* entry is still in the list), and the outcome of step 6 is open again
\* while the steps before it stand
C13_Witness ==
    /\ pc = "date_bother"
    /\ Len(step_results_p) >= 12
    /\ Judged(testdata, 9)
    /\ ~Judged(testdata, 6)
    /\ \A i \in 0..5 : Judged(testdata, i)

----------------------------------------------------------------------------
(* C14 *)

\* the commands of the handshake
IdQuery == "id?"
ReassignCommand == "*id=" \o desired_id

\* the handshake is over, the first addressed command is not yet sent
HandshakeDone == pc \in {"setup", "outputformat"}

\* C14 as claimed: when the id was reassigned, 'id?' is sent after the last
\* '*id=' command and before the first addressed command.
C14_Original == HandshakeDone => last_sent # <<ReassignCommand>>

\* C14: after a reassignment no 'id?' is sent: the caller takes the id that
\* reset_remote_id returns, which is the desired id and is returned only for
\* a reply to '*id=' that contains the confirmation and not the failure
\* token.
C14_IdTakenFromReassignReply ==
    (HandshakeDone /\ last_sent = <<ReassignCommand>>) =>
        /\ remote_id = desired_id
        /\ last_logged.reply_to = ReassignCommand
        /\ Contains(last_logged.text, IdConfirmation)
        /\ ~Contains(last_logged.text, FailureToken)

\* the id was reassigned and the first addressed command is about to be sent
C14_Witness ==
    /\ pc = "outputformat"
    /\ last_sent = <<ReassignCommand>>
    /\ remote_id = desired_id

----------------------------------------------------------------------------
(* C15 *)

\* the commands that carry no address
UnaddressedCommands == {"pwron", IdQuery, ReassignCommand, "pwroff"}

\* the commands addressed to the instrument with the id `id`
AddressedCommands(id) ==
    {"#" \o id \o c :
        c \in {"outputformat=1", "ds", "getcc", "datetime=rollback_target",
               "datetime=utcnow", "sampleinterval=120", "sampleinterval=10",
               "ts"}}

\* the positions of the handshake
HandshakePcs ==
    {"start", "wake", "identify", "identify_prompt", "reassign",
     "reassign_prompt"}

\* the latest step wrote an addressed command
SentAddressed ==
    \E k \in 1..Len(last_sent) : last_sent[k] \notin UnaddressedCommands

\* the last response of the handshake confirms the id
ConfirmedByHandshake ==
    \/ /\ last_sent = <<IdQuery>>
       /\ ReSearchId(last_logged.text) = remote_id
    \/ /\ last_sent = <<ReassignCommand>>
       /\ Contains(last_logged.text, IdConfirmation)

\* C15: every addressed command carries remote_id, which is the desired id
\* and was confirmed by the last response of the handshake; none is sent
\* during the handshake, and remote_id does not change after it.
C15_AddressedToKnownId ==
    /\ [](SentAddressed =>
            /\ \A k \in 1..Len(last_sent) :
                  last_sent[k] \in AddressedCommands(remote_id)
            /\ remote_id = desired_id
            /\ pc \notin HandshakePcs)
    /\ [](HandshakeDone => remote_id = desired_id /\ ConfirmedByHandshake)
    /\ [][remote_id' # remote_id => pc \in HandshakePcs]_vars

\* the commands of the clock reset were sent, addressed to the desired id
C15_Witness ==
    /\ last_sent = <<"#01datetime=utcnow", "#01ds">>
    /\ remote_id = desired_id
    /\ pc = "interval120"

----------------------------------------------------------------------------
(* C16 *)

\* '#%sts' % remote_id
TsCommand == "#" \o remote_id \o "ts"

\* the step is reported as passed
ReportedPassed(i) == report[i].pass = "X"

\* the evidence reported for steps 6 to 9 is that of a judgement of the
\* samples the run ended with
JudgedFromLastSamples ==
    /\ report[6].data \in
          {<<EvDateOk>>, <<EvDateInvalid, JoinFields(sample_air)>>}
    /\ report[7].data \in
          {<<EvDataOk, JoinFields(sample_air)>>,
           <<EvDataInvalid, JoinFields(sample_air)>>}
    /\ report[8].data \in
          {<<EvPressureOk>>, <<EvPressureFail, JoinFields(sample_bucket)>>}
    /\ report[9].data \in
          {<<EvTempOk>>, <<EvTempFail, JoinFields(sample_bucket)>>}
    /\ Head(report[6].data) = EvDateInvalid => Get(sample_air, 4) # UtcToday
    /\ Head(report[7].data) = EvDataInvalid => Implausible(sample_air)
    /\ Head(report[8].data) = EvPressureFail
          => PressureNotGreater(sample_bucket, sample_air)
    /\ Head(report[9].data) = EvTempFail
          => TemperatureNotWarmer(sample_bucket, sample_air)

\* C16: in every pass of the sampling loop one '#NNts' exchange supplies
\* the sample in air, which steps 6 and 7 judge, and one the sample in
\* water, which steps 8 and 9 judge; no other step takes a sample, and the
\* evidence reported for steps 6 to 9 comes from the two samples of the
\* pass that completed the run.
C16_OneSamplePerPair ==
    /\ [][ /\ (pc = "sample_air" /\ pc' # "raised")
               => /\ last_sent' = <<TsCommand>>
                  /\ sample_air' = split_csv(last_logged'.text)
                  /\ sample_bucket' = sample_bucket
           /\ (pc = "immerse" /\ pc' # "raised")
               => /\ last_sent' = <<TsCommand>>
                  /\ sample_bucket' = split_csv(last_logged'.text)
                  /\ sample_air' = sample_air
           /\ pc \notin {"sample_air", "immerse"}
               => /\ UNCHANGED <<sample_air, sample_bucket>>
                  /\ last_sent' = last_sent \/ last_sent' # <<TsCommand>>
         ]_vars
    /\ [](Completed => JudgedFromLastSamples)

\* a run without a restart of the sampling loop reports step 6 failed and
\* step 7 passed from one sample, step 8 passed and step 9 failed from the
\* other
C16_Witness ==
    /\ Completed
    /\ Len(step_results_p) = 11
    /\ ~ReportedPassed(6) /\ ReportedPassed(7)
    /\ ReportedPassed(8) /\ ~ReportedPassed(9)
    /\ Head(report[6].data) = EvDateInvalid
    /\ Head(report[7].data) = EvDataOk
    /\ Head(report[8].data) = EvPressureOk
    /\ Head(report[9].data) = EvTempFail

----------------------------------------------------------------------------
(* C17 *)

\* the positions from which the runner goes on to the temperature check
BeforeTemperatureCheck == {"immerse", "pressure_bother", "pressure_retry"}

\* C17: step 8 passes without a prompt exactly when the pressure in water
\* is greater than the pressure in air, and step 9 exactly when the
\* temperature in water exceeds the temperature in air by at least 1.0.
C17_DifferentialChecks ==
    [][ /\ (pc = "immerse" /\ pc' # "raised")
            => (pc' # "pressure_bother"
                    <=> Get(sample_bucket', 3) > Get(sample_air', 3))
        /\ (/\ pc \in BeforeTemperatureCheck
            /\ pc' \in {"temperature_bother", "report"})
            => (pc' = "report"
                    <=> Get(sample_bucket', 1) - Get(sample_air', 1) >= 10)
      ]_vars

----------------------------------------------------------------------------
(* C18 *)

\* temperature within [10, 30], conductivity within [-1, 1], pressure
\* within [-2, 2], in tenths
WithinPlausibleBounds(sample) ==
    /\ 100 <= Get(sample, 1) /\ Get(sample, 1) <= 300
    /\ -10 <= Get(sample, 2) /\ Get(sample, 2) <= 10
    /\ -20 <= Get(sample, 3) /\ Get(sample, 3) <= 20

\* C18: the plausibility check marks step 7 passed without a prompt exactly
\* when the sample in air is within the bounds, the bounds included; any
\* field out of range leads to the prompt, with step 7 not passed.
C18_PlausibilityBounds ==
    [][ pc = "plausibility" =>
          IF WithinPlausibleBounds(sample_air)
          THEN /\ pc' = "immerse"
               /\ StepPassed(step_results_p', testdata', 7)
               /\ Get(testdata', 7) = <<EvDataOk, JoinFields(sample_air)>>
          ELSE /\ pc' = "plausibility_bother"
               /\ UNCHANGED <<step_results_p, testdata>>
               /\ ~Get(step_results_p, 7) ]_vars

\* a sample with temperature 30.0, conductivity -1.0 and pressure 2.0
\* passed without a prompt
C18_Witness ==
    /\ pc = "immerse"
    /\ retries = 0
    /\ Get(sample_air, 1) = 300
    /\ Get(sample_air, 2) = -10
    /\ Get(sample_air, 3) = 20
    /\ StepPassed(step_results_p, testdata, 7)
    /\ Get(testdata, 7) = <<EvDataOk, JoinFields(sample_air)>>

----------------------------------------------------------------------------
(* C19 *)

\* steps 4 and 5: the interval configured, where the step starts and where
\* the run goes on when the step has ended
IntervalSteps ==
    { [step |-> 4, desired |-> "120", here |-> "interval120",
       next |-> "interval10"],
      [step |-> 5, desired |-> "10", here |-> "interval10",
       next |-> "sample_air"] }

\* C19: an attempt of an interval step whose status reply shows an interval
\* passes the step without a prompt exactly when that interval and the one
\* configured are the same string, and prompts on any other; the flag of
\* the step is not set while the step lasts, and where it becomes set the
\* step ends.
C19_IntervalStringEquality ==
    /\ [](\A s \in IntervalSteps :
            StepAt(pc) = s.step => ~Get(step_results_p, s.step))
    /\ [][ \A s \in IntervalSteps :
             /\ (pc = s.here /\ pc' # pc /\ Len(ds') >= 30) =>
                   IF Get(ds', 29) = s.desired
                   THEN /\ pc' = s.next
                        /\ StepPassed(step_results_p', testdata', s.step)
                   ELSE /\ pc' = s.here \o "_bother"
                        /\ ~Get(step_results_p', s.step)
             /\ (StepAt(pc) = s.step /\ Get(step_results_p', s.step)) =>
                   pc' = s.next ]_vars

\* step 4 passed without a prompt on a reply that showed '120'
C19_Witness ==
    /\ pc = "interval10"
    /\ Get(ds, 29) = "120"
    /\ StepPassed(step_results_p, testdata, 4)
    /\ Get(testdata, 4) = <<EvIntervalSet, "sample interval = 120 seconds">>

----------------------------------------------------------------------------
(* C20 *)

\* the ids that the text shows as 'id = <2 digits>', with the place where
\* each is shown
IdsShown(text) ==
    {shown \in (1..Len(text)) \X {a \o b : a, b \in Digits} :
        /\ shown[1] + 6 <= Len(text)
        /\ \E w1, w2 \in Whitespace, a, b \in Digits :
              /\ shown[2] = a \o b
              /\ SubSeq(text, shown[1], shown[1] + 6) =
                    <<"i", "d", w1, "=", w2, a, b>>}

\* C20: get_remote_id yields an id only from a reply to 'id?' that shows
\* 'id = <2 digits>', and the id is those two digits (of the first place
\* that shows one); after a reply that shows none no id is yielded and the
\* operator is prompted, and from the prompt the function either queries
\* again with 'id?' or returns None.
C20_IdOnlyFromPattern ==
    [][ /\ (pc = "identify" /\ pc' # pc) =>
              /\ last_sent' = <<"id?">>
              /\ last_logged'.reply_to = "id?"
              /\ IF IdsShown(last_logged'.text) = {}
                 THEN /\ pc' = "identify_prompt"
                      /\ remote_id' = remote_id
                 ELSE /\ pc' \in {"reassign", "setup"}
                      /\ \E shown \in IdsShown(last_logged'.text) :
                            /\ remote_id' = shown[2]
                            /\ \A other \in IdsShown(last_logged'.text) :
                                  shown[1] <= other[1]
        /\ (pc = "identify_prompt" /\ pc' # pc) =>
              \/ /\ pc' = "identify"
                 /\ remote_id' = remote_id
              \/ /\ pc' = "abort_identify.pwroff"
                 /\ remote_id' = None ]_vars

\* the id 02 was taken from the second reply to 'id?', after a first reply
\* that showed none and a prompt answered other than 'n'
C20_Witness ==
    /\ pc = "reassign"
    /\ retries = 1
    /\ remote_id = "02"
    /\ last_sent = <<"id?">>
    /\ IdsShown(last_logged.text) # {}

----------------------------------------------------------------------------
(* C21 *)

\* where an attempt of a retried step loop starts, with the step it is about
\* to evaluate, for the loops of steps 3, 4 and 5
AttemptStarts ==
    { [at |-> "clock_rollback", step |-> 3],
      [at |-> "interval120", step |-> 4],
      [at |-> "interval10", step |-> 5] }

\* C21: where an attempt of the loop of step 3, 4 or 5 starts, the flag of
\* that step is False; an attempt of the sampling loop, once it has reset
\* the lists and checked its sample in air, leaves the flags of steps 8 and
\* 9 False and a flag of step 6 or 7 set only with evidence of a pass made
\* by this attempt.
C21_NoPassCarriedOver ==
    /\ [](\A a \in AttemptStarts :
            pc = a.at => ~Get(step_results_p, a.step))
    /\ [][ (pc = "sample_air" /\ pc' # pc) =>
             /\ ~Get(step_results_p', 8)
             /\ ~Get(step_results_p', 9)
             /\ \A i \in 6..7 :
                   Get(step_results_p', i) =>
                      IsSuccess(Get(testdata', i)) ]_vars

----------------------------------------------------------------------------
(* C22 *)

\* C22: no two calls of ctdmo_qct_test in one session are given the same
\* form number, and the capture file of every call that opened one still
\* holds the transcript of that call.
C22_OneTranscriptPerRun ==
    /\ \A i, j \in DOMAIN runs :
          i # j => runs[i].formnumber # runs[j].formnumber
    /\ \A i \in DOMAIN runs :
          runs[i].transcript =>
             files[CaptureFileName(runs[i].formnumber)] = i

----------------------------------------------------------------------------
(* C23 *)

\* C23: the report of a completed run shows steps 0, 1 and 2 as passed, with
\* their evidence of success, and not as failed.
C23_IdentityStepsPass ==
    Completed =>
        \A i \in 0..2 :
            /\ report[i].pass = "X"
            /\ report[i].fail = ""
            /\ IsSuccess(report[i].data)

\* a run completed with an instrument that is not in the inventory and
\* reported firmware 2.0, after the operator declined to try a failed step
\* again
C23_Witness ==
    /\ Completed
    /\ report[2] = [data |-> <<"Firmware 2.0 confirmed.">>, pass |-> "X",
                    fail |-> ""]
    /\ report[1].pass = "X"
    /\ report[0].pass = "X"
    /\ \E i \in 3..9 : report[i].fail = "X"

====
